---- MODULE Spec2Model ----
(***************************************************************************)
(* A model of the feature_engine transformers of this repository:          *)
(*   TargetMeanPredictor  (prediction/target_mean_prediction.py)           *)
(*   MeanEncoder          (encoding/mean_encoding.py)                      *)
(*   BaseDiscretiser      (discretisation/base_discretiser.py)             *)
(*   BaseForecast and its lag transformer                                  *)
(*                        (timeseries/forecasting/base_forecast.py)        *)
(*                                                                         *)
(* One behaviour follows ONE transformer instance (instances share no      *)
(* state): `self` is the instance's attribute dictionary, `call` the last  *)
(* call made on it with its arguments and its outcome (Idle once the       *)
(* caller has dropped the result: the library is single-threaded and       *)
(* synchronous, a call starts when the previous one is over), `fits` the   *)
(* number of fit calls that have returned so far (capped).                 *)
(*                                                                         *)
(* Data: a DataFrame is a record [kind, index, columns, dtypes, data];     *)
(* object columns hold strings ("nan" is the missing marker), numeric      *)
(* columns and index labels hold integers (NaN is the missing marker).     *)
(* A target mean is the exact fraction [sum, n] (n = 0: the mean of no     *)
(* value, pandas' NaN); a column of target means has dtype "float". A      *)
(* column of intervals (dtype "interval") holds pairs <<left, right>>, <<>> *)
(* for the missing interval; a column of bin numbers cast to object has    *)
(* dtype "O".                                                              *)
(***************************************************************************)
EXTENDS Integers, Sequences, FiniteSets, TLC

VARIABLES self, call, fits

vars == <<self, call, fits>>

(***************************** bounds **************************************)
\* rows of every table the model draws
MaxRows == 2
\* numeric cell values are 0..MaxVal
MaxVal == 2
\* bins of a discretiser are 1..MaxBins
MaxBins == 2
\* periods of a lag transformer are 1..MaxPeriods
MaxPeriods == 2
\* completed fits are counted up to MaxFits
MaxFits == 2

(***************************** values **************************************)
\* numpy.nan in a numeric column or in an index
NaN == -1
\* numpy.inf and -numpy.inf: the outer edges a fitted discretiser stores, and
\* an infinite value in a numeric column
PosInf == 1000
NegInf == -1000
\* Python's None
None == [kind |-> "None"]

Range(s) == {s[i] : i \in DOMAIN s}

RECURSIVE SumSeq(_)
SumSeq(s) == IF s = <<>> THEN 0 ELSE Head(s) + SumSeq(Tail(s))

RECURSIVE SetToSeq(_)
\* the elements of a finite set of integers in increasing order
SetToSeq(S) ==
  IF S = {} THEN <<>>
  ELSE LET m == CHOOSE x \in S : \A z \in S : x <= z
       IN <<m>> \o SetToSeq(S \ {m})

\* the sequences of length n over S
SeqsOf(S, n) == [1..n -> S]

DataFrame(index, columns, dtypes, data) ==
  [kind |-> "DataFrame", index |-> index, columns |-> columns,
   dtypes |-> dtypes, data |-> data]

Series(index, values) == [kind |-> "Series", index |-> index, values |-> values]

PyList(values) == [kind |-> "list", values |-> values]

\* pandas.RangeIndex(n): 0, 1, .., n-1
RangeIndex(n) == [i \in 1..n |-> i - 1]

NRows(X) == Len(X.index)

\* X[c].isnull() at row i
isnull(X, c, i) ==
  IF X.dtypes[c] = "object" THEN X.data[c][i] = "nan"
  ELSE IF X.dtypes[c] = "float" THEN X.data[c][i].n = 0
  ELSE IF X.dtypes[c] = "interval" THEN X.data[c][i] = <<>>
  ELSE X.data[c][i] = NaN

\* the columns among cs that hold a missing value
NullColumns(X, cs) == {c \in cs : \E i \in 1..NRows(X) : isnull(X, c, i)}

(************************ instance attributes ******************************)
HasAttr(o, a) == a \in DOMAIN o

SetAttr(o, a, v) == [b \in DOMAIN o \cup {a} |-> IF b = a THEN v ELSE o[b]]

\* the learned attributes: the names with a trailing underscore
LearnedNames ==
  {"variables_", "encoder_dict_", "binner_dict_", "n_features_in_",
   "feature_names_in_"}

\* sklearn.utils.validation.check_is_fitted(self): some attribute of the
\* instance ends with an underscore
check_is_fitted(o) == DOMAIN o \cap LearnedNames # {}

(**************** feature_engine.dataframe_checks **************************)
_is_dataframe(X) == X.kind = "DataFrame"

_check_contains_na(X, variables) == NullColumns(X, variables) = {}

\* no column among variables holds an infinite value
_check_contains_inf(X, variables) ==
  \A c \in variables : \A i \in 1..NRows(X) : X.data[c][i] \notin {PosInf, NegInf}

_check_input_matches_training_df(X, n) == Len(X.columns) = n

(***************************** results *************************************)
\* how a method ends. worked is the table the method wrote into, as it is
\* when the method ends (None when it wrote into no table)
Returned(o, v) == [self |-> o, outcome |-> "returned", result |-> v,
                   named |-> {}, steps |-> <<>>, worked |-> None]

Raised(o, e) == [self |-> o, outcome |-> e, result |-> None,
                 named |-> {}, steps |-> <<>>, worked |-> None]

(************************ TargetMeanPredictor ******************************)
TargetMeanPredictor(regression, bins, strategy) ==
  [cls |-> "TargetMeanPredictor", regression |-> regression, bins |-> bins,
   strategy |-> strategy]

\* fit: _is_dataframe(X) refuses what is no table; _check_contains_na(X) is
\* then called without its second argument, variables, which the helper
\* requires: the call raises TypeError for every table, so that fit never
\* gets to its last statement (`pass`), sets no attribute and never returns
TargetMeanPredictor_fit(o, X, y) ==
  IF ~_is_dataframe(X) THEN Raised(o, "TypeError")
  ELSE Raised(o, "TypeError")

\* predict is `pass`: it returns None whatever the instance and the input
TargetMeanPredictor_predict(o, X) == Returned(o, None)

(****************************** MeanEncoder ********************************)
MeanEncoder(variables, ignore_format, errors) ==
  [cls |-> "MeanEncoder", variables |-> variables,
   ignore_format |-> ignore_format, errors |-> errors]

ObjectColumns(X) == SelectSeq(X.columns, LAMBDA c : X.dtypes[c] = "object")

NumberColumns(X) == SelectSeq(X.columns, LAMBDA c : X.dtypes[c] = "number")

\* BaseCategorical._check_fit_input_and_variables up to the missing-value
\* check: the variables to encode, or the error the selection raises
\* ("ok" with the list otherwise)
FindVariables(o, X) ==
  IF ~o.ignore_format
  THEN IF o.variables = None
       THEN IF ObjectColumns(X) = <<>>
            THEN [error |-> "ValueError", variables |-> <<>>]
            ELSE [error |-> "ok", variables |-> ObjectColumns(X)]
       ELSE IF \E c \in Range(o.variables.values) : X.dtypes[c] # "object"
            THEN [error |-> "TypeError", variables |-> <<>>]
            ELSE [error |-> "ok", variables |-> o.variables.values]
  ELSE IF o.variables = None
       THEN [error |-> "ok", variables |-> X.columns]
       ELSE [error |-> "ok", variables |-> o.variables.values]

\* y as fit sees it: a list becomes a Series over RangeIndex
AsSeries(y) ==
  IF y.kind = "Series" THEN y ELSE Series(RangeIndex(Len(y.values)), y.values)

HasDuplicates(index) ==
  \E i, j \in DOMAIN index : i # j /\ index[i] = index[j]

\* pd.concat([X, y], axis=1) needs to reindex when the two indexes differ, and
\* reindexing fails on an index with repeated labels
ConcatFails(X, ys) ==
  X.index # ys.index /\ (HasDuplicates(X.index) \/ HasDuplicates(ys.index))

\* the labels of ys that are no label of X, in the order of ys
ExtraLabels(X, ys) == SelectSeq(ys.index, LAMBDA l : l \notin Range(X.index))

\* the value of Series s at label l (NaN when s has no such label)
AtLabel(s, l) ==
  IF \E j \in DOMAIN s.index : s.index[j] = l
  THEN s.values[CHOOSE j \in DOMAIN s.index : s.index[j] = l]
  ELSE NaN

\* temp = pd.concat([X, y], axis=1) with its last column renamed "target":
\* rows are aligned on the index labels (outer join), positionally when the
\* two indexes are equal. temp.rows[r] is the position in X of row r (0: the
\* label is in y only), temp.target[r] the target of row r (NaN: the label is
\* in X only)
Concat(X, ys) ==
  IF X.index = ys.index
  THEN [rows |-> [r \in 1..NRows(X) |-> r], target |-> ys.values]
  ELSE LET extra == ExtraLabels(X, ys)
           n == NRows(X)
       IN [rows |-> [r \in 1..(n + Len(extra)) |-> IF r <= n THEN r ELSE 0],
           target |-> [r \in 1..(n + Len(extra)) |->
                         IF r <= n THEN AtLabel(ys, X.index[r])
                         ELSE AtLabel(ys, extra[r - n])]]

\* the keys of temp.groupby(var): the non-missing values of the column
GroupKeys(X, temp, var) ==
  {X.data[var][temp.rows[r]] :
     r \in {q \in DOMAIN temp.rows : temp.rows[q] # 0
                                      /\ ~isnull(X, var, temp.rows[q])}}

\* Series.mean() of the targets ts (a sequence): missing targets are skipped
Mean(ts) ==
  LET kept == SelectSeq(ts, LAMBDA t : t # NaN)
  IN [sum |-> SumSeq(kept), n |-> Len(kept)]

RECURSIVE TargetsOf(_, _, _, _, _)
\* the targets of the rows r..end of temp whose var equals k
TargetsOf(X, temp, var, k, r) ==
  IF r > Len(temp.rows) THEN <<>>
  ELSE (IF temp.rows[r] # 0 /\ X.data[var][temp.rows[r]] = k
        THEN <<temp.target[r]>> ELSE <<>>)
       \o TargetsOf(X, temp, var, k, r + 1)

\* temp.groupby(var)["target"].mean().to_dict()
GroupbyMean(X, temp, var) ==
  [k \in GroupKeys(X, temp, var) |-> Mean(TargetsOf(X, temp, var, k, 1))]

\* BaseCategorical._check_encoding_dictionary
_check_encoding_dictionary(o) == DOMAIN o.encoder_dict_ # {}

\* the dictionary of var after an incremental update: the entries of old stay
\* unless new has the key
Merged(old, new) ==
  [k \in DOMAIN old \cup DOMAIN new |-> IF k \in DOMAIN new THEN new[k] ELSE old[k]]

\* a target whose values are strings; its mean does not exist
PyStrList(values) == [kind |-> "list_of_str", values |-> values]

\* the target holds numbers
NumericTarget(y) == y.kind # "list_of_str"

\* self.encoder_dict_ = {}
EmptyDict == [k \in {} |-> [sum |-> 0, n |-> 0]]

\* fit that merges, key by key, the means of this call into the dictionaries
\* of an earlier fit instead of replacing them
MeanEncoder_fit_Incremental(o, X, y) ==
  IF ~_is_dataframe(X) THEN Raised(o, "TypeError")
  ELSE LET found == FindVariables(o, X) IN
  IF found.error # "ok" THEN Raised(o, found.error)
  ELSE IF ~_check_contains_na(X, Range(found.variables)) THEN Raised(o, "ValueError")
  ELSE LET o1 == SetAttr(o, "variables_", found.variables)
           ys == AsSeries(y) IN
  IF ConcatFails(X, ys) THEN Raised(o1, "InvalidIndexError")
  ELSE LET temp == Concat(X, ys)
           o2 == SetAttr(o1, "encoder_dict_",
                         [var \in Range(o1.variables_) |->
                            IF HasAttr(o, "encoder_dict_") /\ var \in DOMAIN o.encoder_dict_
                            THEN Merged(o.encoder_dict_[var], GroupbyMean(X, temp, var))
                            ELSE GroupbyMean(X, temp, var)])
       IN
  IF ~NumericTarget(y) THEN Raised(SetAttr(o1, "encoder_dict_", EmptyDict), "TypeError")
  ELSE IF ~_check_encoding_dictionary(o2) THEN Raised(o2, "ValueError")
  ELSE Returned(SetAttr(o2, "n_features_in_", Len(X.columns)), [kind |-> "self"])

\* fit: the helper checks X and sets variables_; y is joined to X; the
\* dictionary is emptied and filled variable by variable (the mean of a
\* target of strings raises at the first variable, with the dictionary
\* empty; TypeError in pandas 2, DataError before); then the dictionary is
\* checked and n_features_in_ is set
MeanEncoder_fit(o, X, y) ==
  IF ~_is_dataframe(X) THEN Raised(o, "TypeError")
  ELSE LET found == FindVariables(o, X) IN
  IF found.error # "ok" THEN Raised(o, found.error)
  ELSE IF ~_check_contains_na(X, Range(found.variables)) THEN Raised(o, "ValueError")
  ELSE LET o1 == SetAttr(o, "variables_", found.variables)
           ys == AsSeries(y) IN
  IF ConcatFails(X, ys) THEN Raised(o1, "InvalidIndexError")
  ELSE LET temp == Concat(X, ys)
           o2 == SetAttr(o1, "encoder_dict_",
                         [var \in Range(o1.variables_) |-> GroupbyMean(X, temp, var)])
       IN
  IF ~NumericTarget(y) THEN Raised(SetAttr(o1, "encoder_dict_", EmptyDict), "TypeError")
  ELSE IF ~_check_encoding_dictionary(o2) THEN Raised(o2, "ValueError")
  ELSE Returned(SetAttr(o2, "n_features_in_", Len(X.columns)), [kind |-> "self"])

\* NaN as a target mean
NaNMean == [sum |-> 0, n |-> 0]

\* X[feature].map(d): the entry of each value, NaN for a value with no entry
MapColumn(col, d) ==
  [i \in DOMAIN col |-> IF col[i] \in DOMAIN d THEN d[col[i]] ELSE NaNMean]

\* X with every feature of fs replaced by its column in new, of dtype dt
ReplaceColumns(X, fs, new, dt) ==
  [X EXCEPT !.data = [c \in DOMAIN X.data |-> IF c \in fs THEN new[c] ELSE X.data[c]],
            !.dtypes = [c \in DOMAIN X.dtypes |-> IF c \in fs THEN dt ELSE X.dtypes[c]]]

\* the end of BaseCategorical.transform and of BaseDiscretiser.transform:
\* Xt is the transformed table and keys the columns looked at for missing
\* values; the columns named are all the columns of Xt that hold one. With
\* errors "ignore" a warning names them, with "raise" the ValueError does,
\* and with any other value of errors the table is returned in silence
NaNCheck(o, Xt, keys) ==
  IF NullColumns(Xt, keys) # {}
  THEN LET nan_columns == NullColumns(Xt, Range(Xt.columns)) IN
       IF o.errors = "ignore"
       THEN [Returned(o, Xt) EXCEPT !.named = nan_columns]
       ELSE IF o.errors = "raise"
            THEN [Raised(o, "ValueError") EXCEPT !.named = nan_columns]
            ELSE Returned(o, Xt)
  ELSE Returned(o, Xt)

\* MeanEncoder.transform is BaseCategorical.transform
MeanEncoder_transform(o, X) ==
  IF ~check_is_fitted(o) THEN Raised(o, "NotFittedError")
  ELSE IF ~_is_dataframe(X) THEN Raised(o, "TypeError")
  ELSE IF ~HasAttr(o, "n_features_in_") THEN Raised(o, "AttributeError")
  ELSE IF ~_check_input_matches_training_df(X, o.n_features_in_)
       THEN Raised(o, "ValueError")
  ELSE IF ~_check_contains_na(X, Range(o.variables_)) THEN Raised(o, "ValueError")
  ELSE LET keys == DOMAIN o.encoder_dict_
           Xt == ReplaceColumns(X, keys,
                   [f \in keys |-> MapColumn(X.data[f], o.encoder_dict_[f])],
                   "float")
       IN NaNCheck(o, Xt, keys)

(***************************** discretisers ********************************)
\* BaseDiscretiser.__init__, with the bins of the equal-width discretiser
EqualWidthDiscretiser(bins, return_object, return_boundaries, errors) ==
  [cls |-> "EqualWidthDiscretiser", bins |-> bins,
   return_object |-> return_object, return_boundaries |-> return_boundaries,
   errors |-> errors]

Min(S) == CHOOSE x \in S : \A z \in S : x <= z

Max(S) == CHOOSE x \in S : \A z \in S : x >= z

\* the interval limits of a column split in N intervals of equal width, with
\* the two outer limits opened to infinity. The limits are kept multiplied by
\* N (scale), so that they stay integers
EqualWidthEdges(col, N) ==
  LET lo == Min(Range(col))
      hi == Max(Range(col))
      inner == {N * lo + k * (hi - lo) : k \in 1..(N - 1)}
  IN [scale |-> N, edges |-> <<NegInf>> \o SetToSeq(inner) \o <<PosInf>>]

\* the fit of the equal-width discretiser
EqualWidthDiscretiser_fit(o, X) ==
  IF ~_is_dataframe(X) THEN Raised(o, "TypeError")
  ELSE IF NumberColumns(X) = <<>> THEN Raised(o, "ValueError")
  ELSE IF ~_check_contains_na(X, Range(NumberColumns(X))) THEN Raised(o, "ValueError")
  ELSE LET o1 == SetAttr(o, "variables_", NumberColumns(X))
           o2 == SetAttr(o1, "binner_dict_",
                         [v \in Range(NumberColumns(X)) |->
                            EqualWidthEdges(X.data[v], o.bins)])
       IN Returned(SetAttr(o2, "n_features_in_", Len(X.columns)), [kind |-> "self"])

\* the bin of x among the limits b: the i in 0..Len-2 with
\* edges[i] < x <= edges[i+1] (pandas.cut, right-closed intervals), NaN when
\* x is missing or in no interval
BinOf(x, b) ==
  LET hits == {i \in 1..(Len(b.edges) - 1) :
                 b.edges[i] < b.scale * x /\ b.scale * x <= b.edges[i + 1]}
  IN IF x = NaN \/ hits = {} THEN NaN ELSE Min(hits) - 1

\* pd.cut(col, bins, labels=False)
CutLabelsFalse(col, b) == [i \in DOMAIN col |-> BinOf(col[i], b)]

\* pd.cut(col, bins): the interval itself
CutIntervals(col, b) ==
  [i \in DOMAIN col |->
     IF BinOf(col[i], b) = NaN THEN <<>>
     ELSE <<b.edges[BinOf(col[i], b) + 1], b.edges[BinOf(col[i], b) + 2]>>]

\* the table after the loop over variables_ of BaseDiscretiser.transform
Discretised(o, X) ==
  LET vs == Range(o.variables_) IN
  IF o.return_boundaries
  THEN ReplaceColumns(X, vs,
         [f \in vs |-> CutIntervals(X.data[f], o.binner_dict_[f])], "interval")
  ELSE ReplaceColumns(X, vs,
         [f \in vs |-> CutLabelsFalse(X.data[f], o.binner_dict_[f])],
         IF o.return_object THEN "O" ELSE "number")

\* BaseNumericalTransformer.transform: the checks of the input ("ok" when
\* they pass)
BaseNumericalTransformer_transform(o, X) ==
  IF ~check_is_fitted(o) THEN "NotFittedError"
  ELSE IF ~_is_dataframe(X) THEN "TypeError"
  ELSE IF ~_check_input_matches_training_df(X, o.n_features_in_) THEN "ValueError"
  ELSE IF ~_check_contains_na(X, Range(o.variables_)) THEN "ValueError"
  ELSE "ok"

\* BaseDiscretiser.transform: the loop writes the cut columns into the table
\* super().transform handed back (lines 96-108); the check for introduced
\* missing values then reads self.encoder_dict_, an attribute no discretiser
\* has
BaseDiscretiser_transform(o, X) ==
  LET checked == BaseNumericalTransformer_transform(o, X) IN
  IF checked # "ok" THEN Raised(o, checked)
  ELSE LET Xt == Discretised(o, X) IN
       IF ~HasAttr(o, "encoder_dict_")
       THEN [Raised(o, "AttributeError") EXCEPT !.worked = Xt]
       ELSE [NaNCheck(o, Xt, DOMAIN o.encoder_dict_) EXCEPT !.worked = Xt]

(********************* BaseForecast and the lag transformer ****************)
\* a number handed over as an argument
PyInt(v) == [kind |-> "int", value |-> v]

\* the instance BaseForecast.__init__ leaves, with the parameters the lag
\* transformer adds (variables, periods, sort_index, and the fill of the
\* rows the shift leaves empty: None when no fill is configured)
TimeSeriesLagTransformer(variables, periods, sort_index, fill_value, missing_values, drop_original) ==
  [cls |-> "TimeSeriesLagTransformer", variables |-> variables,
   periods |-> periods, sort_index |-> sort_index, fill_value |-> fill_value,
   missing_values |-> missing_values, drop_original |-> drop_original]

\* X.index.isnull().any()
index_isnull_any(X) == \E i \in DOMAIN X.index : X.index[i] = NaN

\* X.index.is_unique
index_is_unique(X) == ~HasDuplicates(X.index)

\* BaseForecast._check_index
_check_index(X) == ~index_isnull_any(X) /\ index_is_unique(X)

\* BaseForecast._check_na_and_inf: no missing and no infinite value in
\* variables_
_check_na_and_inf(o, X) ==
  /\ _check_contains_na(X, Range(o.variables_))
  /\ _check_contains_inf(X, Range(o.variables_))

\* BaseForecast._check_trainset_features
_check_trainset_features(o, X) ==
  SetAttr(SetAttr(o, "feature_names_in_", X.columns),
          "n_features_in_", Len(X.columns))

\* the variables the lag transformer shifts: the ones given, or every numeric
\* column
LagVariables(o, X) ==
  IF o.variables = None THEN NumberColumns(X) ELSE o.variables.values

\* fit of the lag transformer: it learns the variables and the features of the
\* training table
TimeSeriesLagTransformer_fit(o, X) ==
  IF ~_is_dataframe(X) THEN Raised(o, "TypeError")
  ELSE LET o1 == SetAttr(o, "variables_", LagVariables(o, X)) IN
  IF ~_check_index(X) THEN Raised(o1, "NotImplementedError")
  ELSE IF o1.missing_values = "raise" /\ ~_check_na_and_inf(o1, X)
       THEN Raised(o1, "ValueError")
  ELSE Returned(_check_trainset_features(o1, X), [kind |-> "self"])

\* X[variables] finds every column it is asked for (KeyError otherwise)
HasColumns(X, variables) == Range(variables) \subseteq Range(X.columns)

\* the positions 1..n ordered by the label they hold in index (labels unique)
RECURSIVE SortedPositions(_, _)
SortedPositions(index, left) ==
  IF left = {} THEN <<>>
  ELSE LET m == CHOOSE i \in left : \A j \in left : index[i] <= index[j]
       IN <<m>> \o SortedPositions(index, left \ {m})

\* X with its rows in the order perm
Reordered(X, perm) ==
  [X EXCEPT !.index = [r \in DOMAIN perm |-> X.index[perm[r]]],
            !.data = [c \in DOMAIN X.data |->
                        [r \in DOMAIN perm |-> X.data[c][perm[r]]]]]

\* X.sort_index()
sort_index(X) == Reordered(X, SortedPositions(X.index, DOMAIN X.index))

\* BaseForecast.transform with the sort moved ahead of the checks of the
\* index
BaseForecast_transform_SortsFirst(o, X) ==
  IF ~check_is_fitted(o) THEN Raised(o, "NotFittedError")
  ELSE IF ~_is_dataframe(X) THEN Raised(o, "TypeError")
  ELSE IF ~HasAttr(o, "n_features_in_")
       THEN [Raised(o, "AttributeError") EXCEPT !.worked = X]
  ELSE IF ~_check_input_matches_training_df(X, o.n_features_in_)
       THEN [Raised(o, "ValueError") EXCEPT !.worked = X]
  ELSE LET done == IF o.sort_index THEN <<"sort_index">> ELSE <<>>
           Xs == IF o.sort_index THEN sort_index(X) ELSE X
       IN
  IF index_isnull_any(X) \/ ~index_is_unique(X)
  THEN [Raised(o, "NotImplementedError") EXCEPT !.steps = done, !.worked = Xs]
  ELSE IF o.missing_values = "raise" /\ ~HasColumns(X, o.variables_)
       THEN [Raised(o, "KeyError") EXCEPT !.steps = done, !.worked = Xs]
  ELSE IF o.missing_values = "raise" /\ ~_check_contains_na(X, Range(o.variables_))
       THEN [Raised(o, "ValueError") EXCEPT !.steps = done, !.worked = Xs]
  ELSE IF o.missing_values = "raise" /\ ~_check_contains_inf(X, Range(o.variables_))
       THEN [Raised(o, "ValueError") EXCEPT !.steps = done, !.worked = Xs]
  ELSE [Returned(o, Xs) EXCEPT !.steps = done, !.worked = Xs]

\* BaseForecast.transform: the checks in the order of the code (fitted, a
\* table, the column count, the index, and with missing_values "raise" the
\* missing and the infinite values of variables_), then X.sort_index(
\* inplace=True) on the table _is_dataframe handed back, which is returned.
\* steps lists what was done to the table. A fit that failed after it set
\* variables_ leaves an instance without n_features_in_ (AttributeError) or
\* with variables_ that are no columns of the table (KeyError)
BaseForecast_transform(o, X) ==
  IF ~check_is_fitted(o) THEN Raised(o, "NotFittedError")
  ELSE IF ~_is_dataframe(X) THEN Raised(o, "TypeError")
  ELSE IF ~HasAttr(o, "n_features_in_")
       THEN [Raised(o, "AttributeError") EXCEPT !.worked = X]
  ELSE IF ~_check_input_matches_training_df(X, o.n_features_in_)
       THEN [Raised(o, "ValueError") EXCEPT !.worked = X]
  ELSE IF index_isnull_any(X)
       THEN [Raised(o, "NotImplementedError") EXCEPT !.worked = X]
  ELSE IF ~index_is_unique(X)
       THEN [Raised(o, "NotImplementedError") EXCEPT !.worked = X]
  ELSE IF o.missing_values = "raise" /\ ~HasColumns(X, o.variables_)
       THEN [Raised(o, "KeyError") EXCEPT !.worked = X]
  ELSE IF o.missing_values = "raise" /\ ~_check_contains_na(X, Range(o.variables_))
       THEN [Raised(o, "ValueError") EXCEPT !.worked = X]
  ELSE IF o.missing_values = "raise" /\ ~_check_contains_inf(X, Range(o.variables_))
       THEN [Raised(o, "ValueError") EXCEPT !.worked = X]
  ELSE IF o.sort_index
       THEN [Returned(o, sort_index(X)) EXCEPT !.steps = <<"sort_index">>,
                                               !.worked = sort_index(X)]
       ELSE [Returned(o, X) EXCEPT !.worked = X]

\* the name of the column that holds v shifted by p periods
LagName(v, p) == v \o "_lag_" \o ToString(p) \o "pds"

\* the names of the lag columns of the variables vs
LagNames(vs, p) == {LagName(v, p) : v \in Range(vs)}

\* Series.shift(p, fill_value=fill): row i holds the value of row i - p; the
\* first p rows hold the fill, or the missing value when no fill is
\* configured
shift(col, p, fill) ==
  [i \in DOMAIN col |-> IF i > p THEN col[i - p]
                        ELSE IF fill = None THEN NaN ELSE fill.value]

\* the columns cs of X without those of the set drop
Without(cs, drop) == SelectSeq(cs, LAMBDA c : c \notin drop)

\* X with the shifted copy of every variable of vs added, and vs dropped when
\* drop_original is set
WithLags(X, vs, p, fill, drop_original) ==
  LET lagged == [i \in DOMAIN vs |-> LagName(vs[i], p)]
      kept == IF drop_original THEN Without(X.columns, Range(vs)) ELSE X.columns
      names == Range(kept) \cup Range(lagged)
      source(c) == CHOOSE v \in Range(vs) : LagName(v, p) = c
  IN [X EXCEPT !.columns = kept \o lagged,
               !.dtypes = [c \in names |-> IF c \in Range(kept) THEN X.dtypes[c]
                                           ELSE "number"],
               !.data = [c \in names |-> IF c \in Range(kept) THEN X.data[c]
                                         ELSE shift(X.data[source(c)], p, fill)]]

\* transform of the lag transformer: BaseForecast.transform, then the shift
\* with the configured fill into a new table; with missing_values "raise" a
\* missing value left in a lag column after the fill is an error, with
\* "ignore" it stays
TimeSeriesLagTransformer_transform(o, X) ==
  LET r == BaseForecast_transform(o, X) IN
  IF r.outcome # "returned" THEN r
  ELSE IF ~HasColumns(X, o.variables_)
       THEN [r EXCEPT !.outcome = "KeyError", !.result = None]
  ELSE LET R == WithLags(r.result, o.variables_, o.periods, o.fill_value,
                         o.drop_original)
           done == r.steps \o <<"shift", "merge">>
                   \o (IF o.drop_original THEN <<"drop">> ELSE <<>>)
       IN IF /\ o.missing_values = "raise"
             /\ NullColumns(R, LagNames(o.variables_, o.periods)) # {}
          THEN [r EXCEPT !.outcome = "ValueError", !.result = None,
                         !.steps = done]
          ELSE [r EXCEPT !.result = R, !.steps = done]

(***************************** inputs **************************************)
CityValues == {"London", "Bristol"}

NumValues == 0..MaxVal

PredColumns == <<"City", "Age">>

PredDtypes == [c \in {"City", "Age"} |-> IF c = "City" THEN "object" ELSE "number"]

\* a column of n rows with the missing marker in row k (k = 0: in no row)
CityColumn(n, k) ==
  [i \in 1..n |-> IF i = k THEN "nan" ELSE IF i % 2 = 1 THEN "London" ELSE "Bristol"]

AgeColumn(n, k) == [i \in 1..n |-> IF i = k THEN NaN ELSE i % (MaxVal + 1)]

\* the tables handed to the predictor: an object column City and a numeric
\* column Age, either of which may hold a missing value
PredTables ==
  {DataFrame(RangeIndex(n), PredColumns, PredDtypes,
             [c \in {"City", "Age"} |-> IF c = "City" THEN CityColumn(n, kc)
                                        ELSE AgeColumn(n, ka)]) :
     n \in 1..MaxRows, kc \in 0..1, ka \in 0..1}

\* a single column handed over where a table is expected
NotATable == Series(RangeIndex(MaxRows), [i \in 1..MaxRows |-> i % (MaxVal + 1)])

Targets(n) == {PyList(v) : v \in SeqsOf({0, 1}, n)}

\* the index 1, 2, .., n (a table whose rows were selected from a larger one)
ShiftedIndex(n) == [i \in 1..n |-> i]

\* an index in which the first label is repeated
DupIndex(n) == [i \in 1..n |-> IF i = 1 THEN 0 ELSE i - 2]

\* the training tables of the encoder: City (object) and Age (numeric)
EncFitTables ==
  {DataFrame(idx, PredColumns, PredDtypes,
             [c \in {"City", "Age"} |-> IF c = "City" THEN city
                                        ELSE AgeColumn(MaxRows, 0)]) :
     idx \in {RangeIndex(MaxRows), ShiftedIndex(MaxRows), DupIndex(MaxRows)},
     city \in SeqsOf(CityValues, MaxRows) \cup {CityColumn(MaxRows, 1)}}

\* the target: a list, the Series that shares the index of X, or a list of
\* strings
TargetsFor(X) ==
  Targets(NRows(X)) \cup {Series(X.index, v) : v \in SeqsOf({0, 1}, NRows(X))}
  \cup {PyStrList([i \in 1..NRows(X) |-> "pass"])}

\* the tables handed to transform: City may hold a value never seen in
\* training or a missing value, Age may hold a missing value, and a table
\* may lack the column Age
EncTransformTables ==
  {DataFrame(RangeIndex(MaxRows), PredColumns, PredDtypes,
             [c \in {"City", "Age"} |-> IF c = "City" THEN city
                                        ELSE AgeColumn(MaxRows, ka)]) :
     city \in SeqsOf(CityValues \cup {"Leeds"}, MaxRows) \cup {CityColumn(MaxRows, 1)},
     ka \in 0..1}
  \cup {DataFrame(RangeIndex(MaxRows), <<"City">>, [c \in {"City"} |-> "object"],
                  [c \in {"City"} |-> CityColumn(MaxRows, 0)])}

\* the tables handed to a discretiser: City (object) and Age (numeric, any
\* value, or a missing value in the first row), or City alone
DiscTables ==
  {DataFrame(RangeIndex(MaxRows), PredColumns, PredDtypes,
             [c \in {"City", "Age"} |-> IF c = "City" THEN CityColumn(MaxRows, 0)
                                        ELSE age]) :
     age \in SeqsOf(NumValues, MaxRows) \cup {AgeColumn(MaxRows, 1)}}
  \cup {DataFrame(RangeIndex(MaxRows), <<"City">>, [c \in {"City"} |-> "object"],
                  [c \in {"City"} |-> CityColumn(MaxRows, 0)])}

LagColumns == <<"ambient_temp", "module_temp">>

\* the index labels of a table of n rows: 0..n-1 and the missing label
IndexLabels(n) == (0..(n - 1)) \cup {NaN}

\* the tables handed to the lag transformer: any index over the labels
\* (sorted or not, with repeated or missing labels), ambient_temp with a
\* number, a missing value or an infinite value in the first row, with or
\* without module_temp
LagTables ==
  {DataFrame(idx, cols, [c \in Range(cols) |-> "number"],
             [c \in Range(cols) |->
                IF c = "ambient_temp" THEN [i \in 1..MaxRows |-> IF i = 1 THEN first ELSE i]
                ELSE [i \in 1..MaxRows |-> MaxRows + i]]) :
     idx \in SeqsOf(IndexLabels(MaxRows), MaxRows),
     cols \in {LagColumns, <<"ambient_temp">>},
     first \in {1, NaN, PosInf}}

(***************************** actions *************************************)
Idle ==
  [op |-> "idle", X |-> None, y |-> None, after |-> None,
   outcome |-> "returned", result |-> None, named |-> {}, steps |-> <<>>]

\* the caller's own table once the call is over. A transform rebinds X to
\* the table its input check hands back (X = _is_dataframe(X),
\* X = super().transform(X)) and writes into that table. shared tells
\* whether the check handed back the caller's table itself or a copy of it:
\* then the caller's table is what the method left of it, else it is as
\* handed in
CallerTable(X, r, shared) ==
  IF shared /\ r.worked # None THEN r.worked ELSE X

\* the call as the caller sees it: the arguments as handed in (X, y), the
\* caller's table after the call (after), and the outcome
Record(op, X, y, r, shared) ==
  [op |-> op, X |-> X, y |-> y, after |-> CallerTable(X, r, shared),
   outcome |-> r.outcome, result |-> r.result,
   named |-> r.named, steps |-> r.steps]

\* one call on the instance, from the caller's call to the return or raise
Call(op, X, y, r, shared) ==
  /\ call = Idle
  /\ self' = r.self
  /\ call' = Record(op, X, y, r, shared)
  /\ fits' = IF op = "fit" /\ r.outcome = "returned" /\ fits < MaxFits
             THEN fits + 1 ELSE fits

\* a call of a method that writes into no table
Do(op, X, y, r) == Call(op, X, y, r, FALSE)

\* the caller is done with the result of the last call
Discard ==
  /\ call # Idle
  /\ call' = Idle
  /\ UNCHANGED <<self, fits>>

PredictorFit ==
  /\ self.cls = "TargetMeanPredictor"
  /\ \E X \in PredTables \cup {NotATable} :
       \E y \in Targets(NRows(X)) :
          Do("fit", X, y, TargetMeanPredictor_fit(self, X, y))

PredictorPredict ==
  /\ self.cls = "TargetMeanPredictor"
  /\ \E X \in PredTables \cup {NotATable} :
       Do("predict", X, None, TargetMeanPredictor_predict(self, X))

Predictors ==
  {TargetMeanPredictor(r, b, s) : r \in BOOLEAN, b \in 1..MaxBins,
                                  s \in {"equal-width", "equal-frequency"}}

InitPredictor == self \in Predictors /\ call = Idle /\ fits = 0

NextPredictor == PredictorFit \/ PredictorPredict \/ Discard

SpecPredictor == InitPredictor /\ [][NextPredictor]_vars

EncoderFit ==
  /\ self.cls = "MeanEncoder"
  /\ \E X \in EncFitTables \cup {NotATable} :
       \E y \in (IF _is_dataframe(X) THEN TargetsFor(X) ELSE Targets(MaxRows)) :
          Do("fit", X, y, MeanEncoder_fit(self, X, y))

EncoderTransform ==
  /\ self.cls = "MeanEncoder"
  /\ \E X \in EncTransformTables \cup {NotATable} :
       Do("transform", X, None, MeanEncoder_transform(self, X))

Encoders ==
  {MeanEncoder(v, f, e) : v \in {None, PyList(<<"City">>)}, f \in BOOLEAN,
                          e \in {"ignore", "raise"}}

InitEncoder == self \in Encoders /\ call = Idle /\ fits = 0

NextEncoder == EncoderFit \/ EncoderTransform \/ Discard

SpecEncoder == InitEncoder /\ [][NextEncoder]_vars

DiscretiserFit ==
  /\ self.cls = "EqualWidthDiscretiser"
  /\ \E X \in DiscTables \cup {NotATable} :
       Do("fit", X, None, EqualWidthDiscretiser_fit(self, X))

DiscretiserTransform ==
  /\ self.cls = "EqualWidthDiscretiser"
  /\ \E X \in DiscTables \cup {NotATable}, shared \in BOOLEAN :
       Call("transform", X, None, BaseDiscretiser_transform(self, X), shared)

Discretisers ==
  {EqualWidthDiscretiser(b, ro, rb, e) :
     b \in 1..MaxBins, ro \in BOOLEAN, rb \in BOOLEAN, e \in {"ignore", "raise"}}

InitDiscretiser == self \in Discretisers /\ call = Idle /\ fits = 0

NextDiscretiser == DiscretiserFit \/ DiscretiserTransform \/ Discard

SpecDiscretiser == InitDiscretiser /\ [][NextDiscretiser]_vars

LagFit ==
  /\ self.cls = "TimeSeriesLagTransformer"
  /\ \E X \in LagTables \cup {NotATable} :
       Do("fit", X, None, TimeSeriesLagTransformer_fit(self, X))

LagTransform ==
  /\ self.cls = "TimeSeriesLagTransformer"
  /\ \E X \in LagTables \cup {NotATable}, shared \in BOOLEAN :
       Call("transform", X, None, TimeSeriesLagTransformer_transform(self, X),
            shared)

LagTransformers ==
  {TimeSeriesLagTransformer(v, p, s, f, m, d) :
     v \in {None, PyList(<<"ambient_temp">>)}, p \in 1..MaxPeriods,
     s \in BOOLEAN, f \in {None, PyInt(0)}, m \in {"raise", "ignore"},
     d \in BOOLEAN}

InitLag == self \in LagTransformers /\ call = Idle /\ fits = 0

NextLag == LagFit \/ LagTransform \/ Discard

SpecLag == InitLag /\ [][NextLag]_vars

(************** the transformers with a transform of their own *************)
InitTransformers == InitDiscretiser \/ InitLag

NextTransformers ==
  \/ DiscretiserFit
  \/ DiscretiserTransform
  \/ LagFit
  \/ LagTransform
  \/ Discard

SpecTransformers == InitTransformers /\ [][NextTransformers]_vars

(************************** construction ***********************************)
\* a constructor argument: a Python bool, or a string handed over in its place
PyBool(b) == [kind |-> "bool", value |-> b]

PyStr(v) == [kind |-> "str", value |-> v]

\* isinstance(v, bool)
isinstance_bool(v) == v.kind = "bool"

\* the caller holds no instance: no constructor has returned yet
NoInstance == [cls |-> "none"]

\* the arguments of a constructor call, as the call record keeps them
Args(cls, a) == [kind |-> "args", cls |-> cls, args |-> a]

\* TargetMeanPredictor.__init__: the three arguments are stored as given
TargetMeanPredictor__init__(regression, bins, strategy) ==
  Returned(TargetMeanPredictor(regression, bins, strategy), None)

\* BaseDiscretiser.__init__ (through the equal-width discretiser, which adds
\* bins): the three checks in the order of the code, then the assignments
BaseDiscretiser__init__(bins, return_object, return_boundaries, errors) ==
  IF ~isinstance_bool(return_object) THEN Raised(NoInstance, "ValueError")
  ELSE IF ~isinstance_bool(return_boundaries) THEN Raised(NoInstance, "ValueError")
  ELSE IF errors \notin {"ignore", "raise"} THEN Raised(NoInstance, "ValueError")
  ELSE Returned(EqualWidthDiscretiser(bins, return_object.value,
                                      return_boundaries.value, errors), None)

\* BaseForecast.__init__ (through the lag transformer, which adds variables,
\* periods, sort_index and the fill): the two checks, then the assignments
BaseForecast__init__(variables, periods, sorted, fill, missing_values, drop_original) ==
  IF missing_values \notin {"raise", "ignore"} THEN Raised(NoInstance, "ValueError")
  ELSE IF ~isinstance_bool(drop_original) THEN Raised(NoInstance, "ValueError")
  ELSE Returned(TimeSeriesLagTransformer(variables, periods, sorted, fill,
                                         missing_values, drop_original.value), None)

\* what a caller may hand over for a boolean parameter
BoolArgs == {PyBool(TRUE), PyBool(FALSE), PyStr("cumbia")}

PredictorInit ==
  /\ self = NoInstance
  /\ \E r \in BOOLEAN, b \in 0..MaxBins,
        s \in {"equal-width", "equal-frequency", "cumbia"} :
       Do("__init__",
          Args("TargetMeanPredictor",
               [regression |-> r, bins |-> b, strategy |-> s]),
          None, TargetMeanPredictor__init__(r, b, s))

DiscretiserInit ==
  /\ self = NoInstance
  /\ \E b \in 1..MaxBins, ro \in BoolArgs, rb \in BoolArgs,
        e \in {"ignore", "raise", "cumbia"} :
       Do("__init__",
          Args("EqualWidthDiscretiser",
               [bins |-> b, return_object |-> ro, return_boundaries |-> rb,
                errors |-> e]),
          None, BaseDiscretiser__init__(b, ro, rb, e))

LagInit ==
  /\ self = NoInstance
  /\ \E v \in {None, PyList(<<"ambient_temp">>)}, p \in 1..MaxPeriods,
        s \in BOOLEAN, f \in {None, PyInt(0)},
        m \in {"raise", "ignore", "cumbia"}, d \in BoolArgs :
       Do("__init__",
          Args("TimeSeriesLagTransformer",
               [variables |-> v, periods |-> p, sort_index |-> s,
                fill_value |-> f, missing_values |-> m, drop_original |-> d]),
          None, BaseForecast__init__(v, p, s, f, m, d))

InitConstruct == self = NoInstance /\ call = Idle /\ fits = 0

NextConstruct ==
  \/ PredictorInit
  \/ DiscretiserInit
  \/ LagInit
  \/ PredictorFit
  \/ PredictorPredict
  \/ DiscretiserFit
  \/ DiscretiserTransform
  \/ LagFit
  \/ LagTransform
  \/ Discard

SpecConstruct == InitConstruct /\ [][NextConstruct]_vars

(****************************** selectors **********************************)
\* ProbeFeatureSelection.__init__ (confirm_variables is left at its default)
ProbeFeatureSelection(estimator, scoring, n_iter, seed) ==
  [cls |-> "ProbeFeatureSelection", estimator |-> estimator,
   scoring |-> scoring, n_iter |-> n_iter, seed |-> seed,
   confirm_variables |-> FALSE]

ProbeFeatureSelection__init__(estimator, scoring, n_iter, seed) ==
  Returned(ProbeFeatureSelection(estimator, scoring, n_iter, seed), None)

\* feature_engine.dataframe_checks.check_X_y for a table X and a target y: a
\* y that is a Series must share the index of X
check_X_y(X, y) == y.kind = "Series" => y.index = X.index

\* BaseSelector._check_variable_number: at least two entries in variables_
_check_variable_number(o) == Len(o.variables_) >= 2

\* ProbeFeatureSelection.fit: after the check of X and y it stores in
\* self.variables the pair (categorical variables, numerical variables),
\* _confirm_variables copies it to variables_, the number of entries is
\* checked, and the method ends with `pass`: it returns None
ProbeFeatureSelection_fit(o, X, y) ==
  IF ~check_X_y(X, y) THEN Raised(o, "ValueError")
  ELSE LET o1 == SetAttr(o, "variables", <<ObjectColumns(X), NumberColumns(X)>>)
           o2 == SetAttr(o1, "variables_", o1.variables)
       IN IF ~_check_variable_number(o2) THEN Raised(o2, "ValueError")
          ELSE Returned(o2, None)

\* ProbeFeatureSelection.transform is `pass`
ProbeFeatureSelection_transform(o, X) == Returned(o, None)

\* InformationValue.__init__: after super().__init__ and self.variables it
\* reads ignore_format, a name the method does not have (its parameter is
\* spelled gnore_format): NameError, and no instance is handed to the caller
InformationValue__init__(variables, confirm_variables, gnore_format, errors) ==
  Raised(NoInstance, "NameError")

\* y.nunique()
nunique(y) == Cardinality(Range(y.values))

\* WoEEncoder.fit inside _calc_woe: the weight of evidence of a category
\* needs rows of both classes
WoEDefined(X, y, variables) ==
  \A v \in Range(variables) : \A k \in Range(X.data[v]) :
    \A c \in Range(y.values) :
      \E i \in 1..NRows(X) : X.data[v][i] = k /\ y.values[i] = c

\* InformationValue.fit, for an instance o: the check of X and y, the check
\* that the target is binary, variables_, the weight of evidence, and `pass`:
\* it returns None
InformationValue_fit(o, X, y) ==
  IF ~check_X_y(X, y) THEN Raised(o, "ValueError")
  ELSE IF nunique(y) # 2 THEN Raised(o, "ValueError")
  ELSE IF ObjectColumns(X) = <<>> THEN Raised(o, "ValueError")
  ELSE LET o1 == SetAttr(o, "variables_", ObjectColumns(X)) IN
       IF ~WoEDefined(X, y, o1.variables_) THEN Raised(o1, "ValueError")
       ELSE Returned(o1, None)

\* the targets handed to a selector: a list, a Series on the index of X, or a
\* Series on another index
SelectorTargets(X) ==
  Targets(NRows(X))
  \cup {Series(idx, v) : idx \in {X.index, ShiftedIndex(NRows(X))},
                         v \in SeqsOf({0, 1}, NRows(X))}

\* the tables handed to a selector: City and Age without missing values
SelectorTables == {X \in PredTables : _check_contains_na(X, Range(X.columns))}

ProbeInit ==
  /\ self = NoInstance
  /\ \E sc \in {"roc_auc", "accuracy"}, n \in {5, 10}, sd \in 0..1 :
       Do("__init__",
          Args("ProbeFeatureSelection",
               [estimator |-> "estimator", scoring |-> sc, n_iter |-> n,
                seed |-> sd]),
          None, ProbeFeatureSelection__init__("estimator", sc, n, sd))

InformationValueInit ==
  /\ self = NoInstance
  /\ \E v \in {None, PyList(<<"City">>)}, e \in {"ignore", "raise"} :
       Do("__init__",
          Args("InformationValue",
               [variables |-> v, confirm_variables |-> FALSE,
                gnore_format |-> FALSE, errors |-> e]),
          None, InformationValue__init__(v, FALSE, FALSE, e))

ProbeFit ==
  /\ self.cls = "ProbeFeatureSelection"
  /\ \E X \in SelectorTables :
       \E y \in SelectorTargets(X) :
          Do("fit", X, y, ProbeFeatureSelection_fit(self, X, y))

ProbeTransform ==
  /\ self.cls = "ProbeFeatureSelection"
  /\ \E X \in SelectorTables :
       Do("transform", X, None, ProbeFeatureSelection_transform(self, X))

\* no constructor call returns an InformationValue, so that this step is
\* never taken
InformationValueFit ==
  /\ self.cls = "InformationValue"
  /\ \E X \in SelectorTables :
       \E y \in SelectorTargets(X) :
          Do("fit", X, y, InformationValue_fit(self, X, y))

InitSelectors == self = NoInstance /\ call = Idle /\ fits = 0

NextSelectors ==
  \/ ProbeInit
  \/ InformationValueInit
  \/ ProbeFit
  \/ ProbeTransform
  \/ Discard

SpecSelectors == InitSelectors /\ [][NextSelectors]_vars

(************************ the whole library ********************************)
\* an instance of a class whose constructor is not followed here, or no
\* instance yet
Init ==
  InitPredictor \/ InitEncoder \/ InitDiscretiser \/ InitLag \/ InitSelectors

Next ==
  \/ PredictorFit
  \/ PredictorPredict
  \/ EncoderFit
  \/ EncoderTransform
  \/ DiscretiserFit
  \/ DiscretiserTransform
  \/ LagFit
  \/ LagTransform
  \/ PredictorInit
  \/ DiscretiserInit
  \/ LagInit
  \/ ProbeInit
  \/ InformationValueInit
  \/ ProbeFit
  \/ ProbeTransform
  \/ InformationValueFit
  \/ Discard

Spec == Init /\ [][Next]_vars

(***************************************************************************)
(*                               Claims                                    *)
(***************************************************************************)
\* the fitted state of a TargetMeanPredictor: variables_ and the pipeline of
\* discretiser, encoder_num and encoder_cat
PredictorFitted(o) == HasAttr(o, "variables_") /\ HasAttr(o, "_pipeline")

\* the last call is a fit of a TargetMeanPredictor on a table without
\* missing values
PredictorFitCalled ==
  /\ self.cls = "TargetMeanPredictor" /\ call.op = "fit"
  /\ _is_dataframe(call.X)
  /\ _check_contains_na(call.X, Range(call.X.columns))

\* C1: a TargetMeanPredictor starts Unfitted, a fit on a table without
\* missing values completes and moves it to Fitted, and it is Fitted in every
\* state after a completed fit.
C1_FitMovesToFitted ==
  self.cls = "TargetMeanPredictor" =>
    /\ (fits = 0 /\ call.op # "fit") => ~PredictorFitted(self)
    /\ PredictorFitCalled => (call.outcome = "returned" /\ PredictorFitted(self))
    /\ fits > 0 => PredictorFitted(self)

\* C2: predict on a TargetMeanPredictor on which no fit has completed fails
\* with a not-fitted error, whatever the input, and leaves it Unfitted.
C2_PredictBeforeFitRaises ==
  (self.cls = "TargetMeanPredictor" /\ fits = 0 /\ call.op = "predict") =>
    /\ call.outcome = "NotFittedError"
    /\ ~PredictorFitted(self)

\* C3: after a fit on a table of object and numeric columns without missing
\* values, variables_ lists all columns in order, the discretiser has the
\* numeric columns, encoder_num's dictionary the numeric columns as keys and
\* encoder_cat's the object columns, in this and every later state.
C3_RoutingByRole ==
  (self.cls = "TargetMeanPredictor" /\ (PredictorFitCalled \/ fits > 0)) =>
    /\ PredictorFitted(self)
    /\ self.variables_ = PredColumns
    /\ self["_pipeline"].discretisation.variables = <<"Age">>
    /\ DOMAIN self["_pipeline"].encoder_num.encoder_dict_ = {"Age"}
    /\ DOMAIN self["_pipeline"].encoder_cat.encoder_dict_ = {"City"}

\* two target means are the same number
SameMean(a, b) == a.n > 0 /\ b.n > 0 /\ a.sum * b.n = b.sum * a.n

RECURSIVE TargetsWhere(_, _, _, _, _)
\* the targets of the training rows i..end of X whose v equals k
TargetsWhere(X, yv, v, k, i) ==
  IF i > NRows(X) THEN <<>>
  ELSE (IF X.data[v][i] = k THEN <<yv[i]>> ELSE <<>>)
       \o TargetsWhere(X, yv, v, k, i + 1)

\* C5: after a fit of a MeanEncoder that returned, for every variable of
\* variables_ the keys of its dictionary are the distinct values of the column
\* in the training table, and each key maps to the arithmetic mean of the
\* target over the training rows that hold the key.
C5_DictIsGroupMean ==
  (self.cls = "MeanEncoder" /\ call.op = "fit" /\ call.outcome = "returned") =>
    \A v \in Range(self.variables_) :
      /\ DOMAIN self.encoder_dict_[v] = Range(call.X.data[v])
      /\ \A k \in DOMAIN self.encoder_dict_[v] :
           SameMean(self.encoder_dict_[v][k],
                    Mean(TargetsWhere(call.X, call.y.values, v, k, 1)))

\* the mean of two target means
MeanOfTwo(a, b) == [sum |-> a.sum * b.n + b.sum * a.n, n |-> 2 * a.n * b.n]

\* the target mean the fitted pipeline of predictor o holds for row i of X:
\* encoder_cat's entry for City, encoder_num's entry for the bin of Age
EncodedCity(o, X, i) ==
  o["_pipeline"].encoder_cat.encoder_dict_["City"][X.data["City"][i]]

EncodedAge(o, X, i) ==
  o["_pipeline"].encoder_num.encoder_dict_["Age"][
    BinOf(X.data["Age"][i], o["_pipeline"].discretisation.binner_dict_["Age"])]

\* C4: a TargetMeanPredictor can be fitted (a fit on a table without missing
\* values completes), and predict of a TargetMeanPredictor on which a fit has
\* completed, on a table with the fitted columns and no missing value,
\* returns one value per row, the arithmetic mean over the columns of the
\* row's encoded target mean.
C4_PredictIsMeanOfEncodings ==
  /\ PredictorFitCalled => call.outcome = "returned"
  /\ (/\ self.cls = "TargetMeanPredictor" /\ fits > 0 /\ call.op = "predict"
      /\ _is_dataframe(call.X)
      /\ _check_contains_na(call.X, Range(call.X.columns))) =>
    /\ call.outcome = "returned"
    /\ call.result.kind = "Series"
    /\ Len(call.result.values) = NRows(call.X)
    /\ \A i \in 1..NRows(call.X) :
         SameMean(call.result.values[i],
                  MeanOfTwo(EncodedCity(self, call.X, i), EncodedAge(self, call.X, i)))

\* the table a fitted encoder or discretiser o makes of X
Transformed(o, X) ==
  IF o.cls = "MeanEncoder"
  THEN ReplaceColumns(X, DOMAIN o.encoder_dict_,
         [f \in DOMAIN o.encoder_dict_ |-> MapColumn(X.data[f], o.encoder_dict_[f])],
         "float")
  ELSE Discretised(o, X)

\* transform of o gets as far as transforming X: o is fitted and X is a table
\* with the columns of the training table and no missing value in variables_
TransformsInput(o, X) ==
  /\ HasAttr(o, "variables_") /\ HasAttr(o, "n_features_in_")
  /\ _is_dataframe(X)
  /\ _check_input_matches_training_df(X, o.n_features_in_)
  /\ _check_contains_na(X, Range(o.variables_))

\* C6: transform of a fitted encoder or discretiser that introduces a missing
\* value in a configured variable returns the transformed table with
\* errors = "ignore" and fails with errors = "raise", naming in both cases
\* exactly the configured variables that got a missing value; when it
\* introduces none it returns the transformed table.
C6_MissingValuePolicy ==
  (/\ self.cls \in {"MeanEncoder", "EqualWidthDiscretiser"}
   /\ call.op = "transform"
   /\ TransformsInput(self, call.X)) =>
    LET Xt == Transformed(self, call.X)
        introduced == NullColumns(Xt, Range(self.variables_))
    IN /\ (introduced # {} /\ self.errors = "ignore") =>
             (call.outcome = "returned" /\ call.result = Xt /\ call.named = introduced)
       /\ (introduced # {} /\ self.errors = "raise") =>
             (call.outcome = "ValueError" /\ call.named = introduced)
       /\ introduced = {} => (call.outcome = "returned" /\ call.result = Xt)

\* C7: transform of a fitted discretiser that returns bin numbers gives every
\* value x of a discretised variable the number, in 0..N-1, of the interval
\* that holds x (the first interval for an x at or below the training range,
\* the last for an x above it): never a missing value.
C7_BinHoldsValue ==
  (/\ self.cls = "EqualWidthDiscretiser" /\ ~self.return_boundaries
   /\ call.op = "transform"
   /\ TransformsInput(self, call.X)) =>
    /\ call.outcome = "returned"
    /\ \A v \in Range(self.variables_) : \A i \in 1..NRows(call.X) :
         LET b == call.result.data[v][i]
             lim == self.binner_dict_[v]
             x == call.X.data[v][i]
         IN /\ b \in 0..(Len(lim.edges) - 2)
            /\ lim.edges[b + 1] < lim.scale * x
            /\ lim.scale * x <= lim.edges[b + 2]

\* the index of X has a missing or a repeated label
BadIndex(X) ==
  \/ NaN \in Range(X.index)
  \/ Cardinality(Range(X.index)) < Len(X.index)

\* C8, as claimed, for a transformer on which a fit has completed: transform
\* on a table whose index has a missing or repeated label fails with the
\* index error and no other, before anything is sorted, shifted or added,
\* whatever the columns of the table.
C8_BadIndexAlwaysIndexError ==
  (/\ self.cls = "TimeSeriesLagTransformer" /\ fits > 0
   /\ call.op = "transform" /\ _is_dataframe(call.X) /\ BadIndex(call.X)) =>
    (call.outcome = "NotImplementedError" /\ call.steps = <<>>)

\* C8, amended: on a transformer on which a fit has completed, transform on a
\* table with as many columns as the training table whose index has a missing
\* or repeated label fails with the index error, returns no table, and has
\* sorted, shifted and added nothing.
C8_BadIndexRaisesBeforeShift ==
  (/\ self.cls = "TimeSeriesLagTransformer" /\ fits > 0
   /\ call.op = "transform" /\ _is_dataframe(call.X)
   /\ Len(call.X.columns) = self.n_features_in_
   /\ BadIndex(call.X)) =>
    (call.outcome = "NotImplementedError" /\ call.steps = <<>>
     /\ call.result = None)

\* a transform on a table with the training table's column count and a
\* repeated index label was refused with the index error
C8_Witness ==
  /\ self.cls = "TimeSeriesLagTransformer" /\ fits > 0
  /\ call.op = "transform" /\ _is_dataframe(call.X)
  /\ Len(call.X.columns) = self.n_features_in_
  /\ NaN \notin Range(call.X.index)
  /\ Cardinality(Range(call.X.index)) < Len(call.X.index)
  /\ call.outcome = "NotImplementedError"

\* C9: transform of a lag transformer with periods p and selected variables V
\* on a table with a unique and complete index returns a table with the same
\* index in which every v of V has a column v_lag_<p>pds that is missing in
\* the first p rows and holds in row i > p the value of v in row i - p; the
\* original columns are all there, unchanged, without drop_original and none
\* is there with it.
C9_LagColumns ==
  (/\ self.cls = "TimeSeriesLagTransformer"
   /\ call.op = "transform" /\ _is_dataframe(call.X) /\ ~BadIndex(call.X)) =>
    LET X == call.X
        R == call.result
        p == self.periods
    IN /\ call.outcome = "returned"
       /\ R.index = X.index
       /\ \A v \in Range(LagVariables(self, X)) :
            /\ LagName(v, p) \in Range(R.columns)
            /\ \A i \in 1..NRows(X) :
                 R.data[LagName(v, p)][i] = IF i <= p THEN NaN ELSE X.data[v][i - p]
       /\ \A c \in Range(X.columns) :
            IF self.drop_original THEN c \notin Range(R.columns)
            ELSE c \in Range(R.columns) /\ R.data[c] = X.data[c]

\* C10: transform of a lag transformer that is as constructed (fit was never
\* called), on an input that is no dataframe, fails with TypeError.
C10_TypeErrorBeforeFit ==
  (/\ self \in LagTransformers /\ fits = 0
   /\ call.op = "transform" /\ ~_is_dataframe(call.X)) =>
    call.outcome = "TypeError"

\* a configuration the constructors must refuse is held by no instance
ValidConfiguration(o) ==
  /\ o.cls = "TargetMeanPredictor" =>
       o.bins >= 1 /\ o.strategy \in {"equal-width", "equal-frequency"}
  /\ o.cls = "TimeSeriesLagTransformer" =>
       o.missing_values \in {"raise", "ignore"} /\ o.drop_original \in BOOLEAN
  /\ o.cls = "EqualWidthDiscretiser" =>
       /\ o.return_object \in BOOLEAN /\ o.return_boundaries \in BOOLEAN
       /\ o.errors \in {"ignore", "raise"}

\* C11: every invalid constructor argument is rejected at construction: in
\* every state the instance, if there is one, holds a valid configuration
\* (bins >= 1 and a known strategy for the predictor; a known missing_values
\* and a boolean drop_original for the lag transformer; boolean return_object
\* and return_boundaries and a known errors for the discretiser).
C11_InvalidConfigurationRejected == ValidConfiguration(self)

\* the learned attributes of an instance, with their values
Learned(o) == [a \in DOMAIN o \cap LearnedNames |-> o[a]]

\* C12: fit is atomic with respect to failure: a call of fit that raises
\* leaves every learned attribute of the instance with the value, or the
\* absence, it had before the call.
C12_FailedFitKeepsState ==
  [][(call'.op = "fit" /\ call'.outcome # "returned") =>
       Learned(self') = Learned(self)]_vars

\* C13: a fit that succeeds returns the instance it was called on, and the
\* caller's X holds after the call what it held before.
C13_FitReturnsSelf ==
  (call.op = "fit" /\ call.outcome = "returned") =>
    (call.result = [kind |-> "self"] /\ call.after = call.X)

\* transform of the fitted transformer o is due to return a table for X: X
\* passes the checks of o's transform and o's policy (errors, missing_values)
\* is "ignore"
ReturnDue(o, X) ==
  IF o.cls = "EqualWidthDiscretiser"
  THEN TransformsInput(o, X) /\ o.errors = "ignore"
  ELSE /\ HasAttr(o, "variables_") /\ HasAttr(o, "n_features_in_")
       /\ _is_dataframe(X)
       /\ _check_input_matches_training_df(X, o.n_features_in_)
       /\ _check_index(X)
       /\ HasColumns(X, o.variables_)
       /\ o.missing_values = "ignore"

\* C14: transform is read-only: a call of transform on a fitted discretiser
\* or lag transformer, whether it returns or raises, leaves the instance as
\* it was and leaves the caller's table as it was, in values, columns and
\* row order; and a call that is due to return a table returns one (the same
\* at every call, since neither the instance nor the table has changed).
C14_TransformReadOnly ==
  [][(/\ call'.op = "transform" /\ fits > 0
      /\ self.cls \in {"EqualWidthDiscretiser", "TimeSeriesLagTransformer"}) =>
       /\ self' = self
       /\ call'.after = call'.X
       /\ ReturnDue(self, call'.X) => call'.outcome = "returned"]_vars

\* the instance as constructed: its configuration without what fit learned
Config(o) == [a \in DOMAIN o \ LearnedNames |-> o[a]]

\* C15: re-fitting replaces state wholesale: after every fit of a MeanEncoder
\* that returned, on a fresh or on a fitted encoder, variables_,
\* encoder_dict_ and n_features_in_ are those of a fresh encoder with the same
\* configuration that ran this fit alone.
C15_RefitReplacesState ==
  (self.cls = "MeanEncoder" /\ call.op = "fit" /\ call.outcome = "returned") =>
    Learned(self) = Learned(MeanEncoder_fit(Config(self), call.X, call.y).self)

\* a second fit of a MeanEncoder has returned, on a table without London
C15_Witness ==
  /\ self.cls = "MeanEncoder" /\ fits = 2
  /\ call.op = "fit" /\ call.outcome = "returned"
  /\ "London" \notin Range(call.X.data["City"])
  /\ DOMAIN self.encoder_dict_["City"] = {"Bristol"}

\* the last call is a transform of a lag transformer on which a fit has
\* completed, on a table that passes the checks of type, column count and
\* index and holds the variables to shift
LagTransformChecked ==
  /\ self.cls = "TimeSeriesLagTransformer" /\ fits > 0
  /\ call.op = "transform" /\ _is_dataframe(call.X)
  /\ Len(call.X.columns) = self.n_features_in_
  /\ ~BadIndex(call.X)
  /\ HasColumns(call.X, self.variables_)

\* the last call is a transform of a lag transformer as constructed (the way
\* the tests call it), on a table with a complete and unique index
LagTransformAsConstructed ==
  /\ self \in LagTransformers /\ fits = 0
  /\ call.op = "transform" /\ _is_dataframe(call.X)
  /\ ~BadIndex(call.X)

\* the variables o shifts in X
ShiftedVariables(o, X) ==
  IF HasAttr(o, "variables_") THEN o.variables_ ELSE LagVariables(o, X)

\* the table whose columns o shifts: X, sorted by its index with sort_index
ToShift(o, X) == IF o.sort_index THEN sort_index(X) ELSE X

\* the shift of a variable of X, after the fill, holds a missing value
ShiftLeavesMissing(o, X) ==
  \E v \in Range(ShiftedVariables(o, X)) :
    \E i \in 1..NRows(X) :
      shift(ToShift(o, X).data[v], o.periods, o.fill_value)[i] = NaN

\* the lag columns of the table R are the shifted variables of X with their
\* missing values in place
LagColumnsAsShifted(o, X, R) ==
  \A v \in Range(ShiftedVariables(o, X)) :
    /\ LagName(v, o.periods) \in Range(R.columns)
    /\ R.data[LagName(v, o.periods)]
         = shift(ToShift(o, X).data[v], o.periods, o.fill_value)

\* C16: the policy missing_values applies to the result of the shift: with
\* "raise" transform fails with the data error whenever a lag column still
\* holds a missing value, the rows the shift created included; with "ignore"
\* it returns the table with the missing values in place.
C16_PolicyOnShiftedResult ==
  (LagTransformAsConstructed \/ LagTransformChecked) =>
    /\ (self.missing_values = "raise" /\ ShiftLeavesMissing(self, call.X)) =>
         call.outcome = "ValueError"
    /\ self.missing_values = "ignore" =>
         (call.outcome = "returned"
          /\ LagColumnsAsShifted(self, call.X, call.result))

====
